---------------------------- MODULE Spec2Model ----------------------------
(***************************************************************************)
(* A model of src/algorithms.py of CityBike: merge_sort / _merge,          *)
(* insertion_sort, binary_search, linear_search.                           *)
(*                                                                         *)
(* Python lists are objects: the model keeps a heap of list objects        *)
(* (a sequence of sequences, a reference is an index into it), so that    *)
(* copying, slicing and aliasing are visible.  Elements are pairs         *)
(* <<k, t>> (a tuple such as (1, "a"), the letter written as a number),    *)
(* a key function maps an element to an integer key.                       *)
(*                                                                         *)
(* An optional value (Python's None or a value v) is <<>> or <<v>>.        *)
(***************************************************************************)
EXTENDS Integers, Sequences, FiniteSets, TLC

VARIABLES
    heap,       \* the list objects allocated so far: heap[r] is the list at reference r
    key_calls,  \* number of invocations of the key function so far (in binary_search's
                \* loop counted up to MaxProbes, where the count stays)
    compares,   \* number of evaluations of _merge's comparison (line 59) so far
    log,        \* the splits and merges done so far, in the order they were done
    exc,        \* the exception the call ended with, NoExc when none
    ret,        \* the value the call returned: None, or <<reference>> / <<index>>
    pc,         \* "idle" before the call, "bs_while" / "bs_body" inside binary_search, "done"
    op,         \* the function that was called
    data,       \* the sequence argument of the call (a reference), None before the call
    key,        \* the key argument of the call
    target,     \* the target argument of a search, None for a sort
    low, high,  \* binary_search's locals
    mid, mid_val,
    arg0,       \* history: the contents of the sequence argument when the call was made
    bench,      \* the benchmark in progress: its repeats argument, the number of timed
                \* calls made so far and the two measured times; None outside a benchmark
    obj,        \* the domain object the caller holds: None, or <<its attributes>>
    args,       \* the arguments of the last constructor, setter, pricing or factory call;
                \* for load_data the data directory: its dataset and the files found
    files       \* the CSV files clean_data exported: per file None, or <<its table>>

vars == <<heap, key_calls, compares, log, exc, ret, pc, op, data, key, target, low, high, mid, mid_val, arg0,
          bench, obj, args, files>>

\* the variables of the sorting and searching calls that the other calls leave alone
algvars == <<heap, key_calls, compares, log, data, key, target, low, high, mid, mid_val, arg0, bench>>

(***************************************************************************)
(* Bounds of the model.                                                    *)
(***************************************************************************)
MaxLen == 3     \* lists of up to MaxLen elements
MaxVal == 2     \* first components 0..MaxVal
MaxProbes == 2  \* binary_search's key invocations are counted up to MaxProbes
MaxRepeats == 2 \* benchmarks are called with repeats in -1..MaxRepeats

None == <<>>
Some(v) == <<v>>
NoExc == "none"

\* second components: the letters a, b, c written 0, 1, 2
Letters == {0, 1, 2}

\* the elements of the enumerated lists: two letters, so that distinct elements tie
\* under a key that reads the first component only
Elements == (0..MaxVal) \X {0, 1}

RECURSIVE SeqsUpTo(_, _)
SeqsUpTo(S, n) ==
    IF n = 0 THEN {<<>>}
    ELSE LET shorter == SeqsUpTo(S, n - 1)
         IN  shorter \cup {Append(s, x) : s \in {t \in shorter : Len(t) = n - 1}, x \in S}

\* The lists of the concrete scenarios: a plain number n is the element <<n, 0>>.
Unsorted5 == << <<5,0>>, <<3,0>>, <<1,0>>, <<4,0>>, <<2,0>> >>
Sorted5 == << <<1,0>>, <<2,0>>, <<3,0>>, <<4,0>>, <<5,0>> >>
\* [(1,"a"), (2,"b"), (1,"c")]
Stable3 == << <<1,0>>, <<2,1>>, <<1,2>> >>

\* [1, 1, 1, 1, 1]
Ones5 == << <<1,0>>, <<1,0>>, <<1,0>>, <<1,0>>, <<1,0>> >>

Lists == SeqsUpTo(Elements, MaxLen) \cup {Unsorted5, Sorted5, Stable3, Ones5}

\* The key functions a caller passes.
\*   "identity": lambda x: x            (the default; tuples compare lexicographically)
\*   "first":    lambda x: x[0]
\*   "neg":      lambda x: -x[0]
\*   "recip":    lambda x: 60 // x[0]   (raises ZeroDivisionError on x[0] == 0)
Keys == {"identity", "first", "neg", "recip"}

Targets == (0..(MaxVal + 1)) \cup {4, 9}

\* The integer a key function yields for element x.  The identity key of a pair is
\* the pair itself; the integer orders the pairs as Python orders tuples.
KeyVal(k, x) ==
    CASE k = "identity" -> x[1] * Cardinality(Letters) + x[2]
      [] k = "first"    -> x[1]
      [] k = "neg"      -> 0 - x[1]
      [] k = "recip"    -> 60 \div x[1]

KeyRaises(k, x) == k = "recip" /\ x[1] = 0

(***************************************************************************)
(* The interpreter state threaded through a call: st.heap, st.key_calls,   *)
(* st.compares, st.log, st.exc and st.ret (the value of the last           *)
(* expression evaluated).                                                  *)
(***************************************************************************)

\* key(x) read from keys computed once before the sort: no invocation here
key_call_precomputed(st, k, x) ==
    IF KeyRaises(k, x)
    THEN [st EXCEPT !.exc = "ZeroDivisionError", !.ret = None]
    ELSE [st EXCEPT !.ret = Some(KeyVal(k, x))]
\* key(x) with a failure of the key function caught and 0 used as the key
key_call_swallowed(st, k, x) ==
    IF KeyRaises(k, x)
    THEN [st EXCEPT !.key_calls = @ + 1, !.ret = Some(0)]
    ELSE [st EXCEPT !.key_calls = @ + 1, !.ret = Some(KeyVal(k, x))]
\* key(x): one invocation of the key function
key_call(st, k, x) ==
    IF KeyRaises(k, x)
    THEN [st EXCEPT !.key_calls = @ + 1, !.exc = "ZeroDivisionError", !.ret = None]
    ELSE [st EXCEPT !.key_calls = @ + 1, !.ret = Some(KeyVal(k, x))]

\* a new list object holding lst; ret is its reference
alloc(st, lst) ==
    [st EXCEPT !.heap = Append(@, lst), !.ret = Some(Len(st.heap) + 1)]

\* `return data` in place of `return list(data)`: the argument itself
list_alias(st, r) == [st EXCEPT !.ret = Some(r)]
\* list(r): a new list with the contents of r
list_copy(st, r) == alloc(st, st.heap[r])

\* r[a:b] taken out of r: the new list, and r without these elements
slice_moving(st, r, a, b) ==
    [alloc(st, SubSeq(st.heap[r], a + 1, b)) EXCEPT
        !.heap[r] = SubSeq(@, 1, a) \o SubSeq(@, b + 1, Len(@))]
\* r[a:b] (0-based, b exclusive): a new list
slice(st, r, a, b) == alloc(st, SubSeq(st.heap[r], a + 1, b))

\* r.append(x): in place
list_append(st, r, x) == [st EXCEPT !.heap[r] = Append(@, x)]

\* r[i] = x (0-based): in place
list_setitem(st, r, i, x) == [st EXCEPT !.heap[r][i + 1] = x]

\* r.extend(s[a:]): in place on r
list_extend(st, r, s, a) ==
    [st EXCEPT !.heap[r] = @ \o SubSeq(st.heap[s], a + 1, Len(st.heap[s]))]


(***************************************************************************)
(* _merge and merge_sort (src/algorithms.py:27-68).                        *)
(***************************************************************************)

\* the test of line 59 on the two keys: key(left[i]) <= key(right[j])
takes_left_strict(kl, kr) == kl < kr
takes_left(kl, kr) == kl <= kr

\* The while loop of _merge (lines 58-64) from indices i, j (0-based) on; yields
\* the interpreter state and the indices at the loop's exit.  key(left[i]) is
\* evaluated before key(right[j]); an exception in either leaves the loop.
RECURSIVE merge_while(_, _, _, _, _, _, _)
merge_while(st, left, right, result, i, j, k) ==
    IF i < Len(st.heap[left]) /\ j < Len(st.heap[right])
    THEN LET kl == key_call(st, k, st.heap[left][i + 1])
         IN  IF kl.exc # NoExc THEN [st |-> kl, i |-> i, j |-> j]
             ELSE LET kr == key_call(kl, k, kl.heap[right][j + 1])
                  IN  IF kr.exc # NoExc THEN [st |-> kr, i |-> i, j |-> j]
                      ELSE LET c == [kr EXCEPT !.compares = @ + 1]
                           IN  IF takes_left(kl.ret[1], kr.ret[1])
                               THEN merge_while(list_append(c, result, c.heap[left][i + 1]),
                                                left, right, result, i + 1, j, k)
                               ELSE merge_while(list_append(c, result, c.heap[right][j + 1]),
                                                left, right, result, i, j + 1, k)
    ELSE [st |-> st, i |-> i, j |-> j]

\* lines 66-67 without the second extend
merge_tails_left_only(st, left, right, result, i, j) ==
    list_extend(st, result, left, i)
\* result.extend(left[i:]); result.extend(right[j:])
merge_tails(st, left, right, result, i, j) ==
    list_extend(list_extend(st, result, left, i), result, right, j)

\* the log with one more entry
logged(st, e) == [st EXCEPT !.log = Append(@, e)]

\* _merge(left, right, key): ret is the reference of the new list `result`.  The
\* log entry holds the two lists and the number of iterations the loop made: each
\* iteration adds one to i or to j.
_merge(st, left, right, k) ==
    LET fresh == alloc(st, <<>>)
        result == fresh.ret[1]
        w == merge_while(fresh, left, right, result, 0, 0, k)
        after == logged(w.st, [step |-> "merge", left |-> w.st.heap[left],
                               right |-> w.st.heap[right], iterations |-> w.i + w.j])
    IN  IF after.exc # NoExc THEN after
        ELSE [merge_tails(after, left, right, result, w.i, w.j) EXCEPT !.ret = Some(result)]

\* mid = (len(data) + 1) // 2
split_point_ceil(n) == (n + 1) \div 2
\* mid = len(data) // 2 (line 44)
split_point(n) == n \div 2

\* merge_sort(data, key): ret is the reference of the sorted list.  The log entry
\* of a split holds data and the two slices taken from it.
RECURSIVE merge_sort(_, _, _)
merge_sort(st, d, k) ==
    IF Len(st.heap[d]) <= 1 THEN list_copy(st, d)
    ELSE LET m == split_point(Len(st.heap[d]))
             sl == slice(st, d, 0, m)
             l == merge_sort(sl, sl.ret[1], k)
         IN  IF l.exc # NoExc THEN l
             ELSE LET s2 == slice(l, d, m, Len(l.heap[d]))
                      sr == logged(s2, [step |-> "split", data |-> s2.heap[d],
                                        left |-> sl.heap[sl.ret[1]],
                                        right |-> s2.heap[s2.ret[1]]])
                      r == merge_sort(sr, sr.ret[1], k)
                  IN  IF r.exc # NoExc THEN r
                      ELSE _merge(r, l.ret[1], r.ret[1], k)

(***************************************************************************)
(* insertion_sort and linear_search (lines 75-95, 140-161): the body is    *)
(* the single statement raise NotImplementedError(...).                    *)
(***************************************************************************)
insertion_sort(st, d, k) == [st EXCEPT !.exc = "NotImplementedError", !.ret = None]

linear_search(st, d, t, k) == [st EXCEPT !.exc = "NotImplementedError", !.ret = None]

(***************************************************************************)
(* The state machine: the caller builds a list and makes one call.         *)
(***************************************************************************)
Init ==
    /\ heap = <<>>
    /\ key_calls = 0
    /\ compares = 0
    /\ log = <<>>
    /\ exc = NoExc
    /\ ret = None
    /\ pc = "idle"
    /\ op = "none"
    /\ data = None
    /\ key = "identity"
    /\ target = None
    /\ low = None /\ high = None /\ mid = None /\ mid_val = None
    /\ arg0 = <<>>
    /\ bench = None
    /\ obj = None
    /\ args = None
    /\ files = [trips_clean |-> None, stations_clean |-> None, maintenance_clean |-> None]

\* the interpreter state when f(S, ...) is entered with S a new list at reference 1
Entry(S) == [heap |-> <<S>>, key_calls |-> 0, compares |-> 0, log |-> <<>>, exc |-> NoExc, ret |-> None]

\* the variables after a call that ran to its end (returned or raised) in state st
Finish(st, f, S, k, t) ==
    /\ heap' = st.heap
    /\ key_calls' = st.key_calls
    /\ compares' = st.compares
    /\ log' = st.log
    /\ exc' = st.exc
    /\ ret' = IF st.exc = NoExc THEN st.ret ELSE None
    /\ pc' = "done"
    /\ op' = f
    /\ data' = Some(1)
    /\ key' = k
    /\ target' = t
    /\ arg0' = S
    /\ UNCHANGED <<low, high, mid, mid_val, bench, obj, args, files>>

CallMergeSort ==
    /\ pc = "idle"
    /\ \E S \in Lists, k \in Keys :
          Finish(merge_sort(Entry(S), 1, k), "merge_sort", S, k, None)

CallInsertionSort ==
    /\ pc = "idle"
    /\ \E S \in Lists, k \in Keys :
          Finish(insertion_sort(Entry(S), 1, k), "insertion_sort", S, k, None)

CallLinearSearch ==
    /\ pc = "idle"
    /\ \E S \in Lists, k \in Keys, t \in Targets :
          Finish(linear_search(Entry(S), 1, t, k), "linear_search", S, k, Some(t))

(***************************************************************************)
(* binary_search (lines 102-133), one action per statement of the loop.    *)
(***************************************************************************)
\* line 123: low, high = 0, len(sorted_data) - 1
BinarySearchEnter ==
    /\ pc = "idle"
    /\ \E S \in Lists, k \in Keys, t \in Targets :
          /\ heap' = <<S>>
          /\ data' = Some(1)
          /\ key' = k
          /\ target' = Some(t)
          /\ arg0' = S
          /\ low' = Some(0)
          /\ high' = Some(Len(S) - 1)
    /\ op' = "binary_search"
    /\ pc' = "bs_while"
    /\ UNCHANGED <<key_calls, compares, log, exc, ret, mid, mid_val, bench, obj, args, files>>

\* line 125, condition true: enter the body
BinarySearchWhile ==
    /\ pc = "bs_while"
    /\ low[1] <= high[1]
    /\ pc' = "bs_body"
    /\ UNCHANGED <<heap, key_calls, compares, log, exc, ret, op, data, key, target, low, high, mid, mid_val, arg0,
                   bench, obj, args, files>>

\* lines 126-131: mid and mid_val are computed, then `pass`; back to the test
BinarySearchBody ==
    /\ pc = "bs_body"
    /\ LET m == (low[1] + high[1]) \div 2
           kc == key_call([heap |-> heap, key_calls |-> key_calls, compares |-> compares, log |-> log, exc |-> exc, ret |-> ret],
                          key, heap[data[1]][m + 1])
       IN  /\ mid' = Some(m)
           /\ key_calls' = IF key_calls < MaxProbes THEN kc.key_calls ELSE key_calls
           /\ compares' = kc.compares
           /\ log' = kc.log
           /\ exc' = kc.exc
           /\ IF kc.exc # NoExc
              THEN mid_val' = mid_val /\ pc' = "done"
              ELSE mid_val' = kc.ret /\ pc' = "bs_while"
    /\ UNCHANGED <<heap, ret, op, data, key, target, low, high, arg0, bench, obj, args, files>>

\* line 133 returning -1 for "not found"
BinarySearchReturnMinusOne ==
    /\ pc = "bs_while"
    /\ ~(low[1] <= high[1])
    /\ ret' = Some(0 - 1)
    /\ pc' = "done"
    /\ UNCHANGED <<heap, key_calls, compares, log, exc, op, data, key, target, low, high, mid, mid_val, arg0,
                   bench, obj, args, files>>
\* line 125, condition false, then line 133: return None
BinarySearchReturnNone ==
    /\ pc = "bs_while"
    /\ ~(low[1] <= high[1])
    /\ ret' = None
    /\ pc' = "done"
    /\ UNCHANGED <<heap, key_calls, compares, log, exc, op, data, key, target, low, high, mid, mid_val, arg0,
                   bench, obj, args, files>>

(***************************************************************************)
(* benchmark_sort (lines 168-184) and benchmark_search (lines 187-203).    *)
(*                                                                         *)
(* timeit.timeit(f, number=n) calls f n times (not at all when n <= 0) and *)
(* returns the elapsed time, which the model draws from Elapsed, in        *)
(* thousandths of a millisecond.  A benchmark value is kept in hundredths  *)
(* of a millisecond, the precision round(..., 2) leaves.  The list a timed *)
(* call returns is dropped at once, so only the caller's list stays in the *)
(* heap between two timed calls.                                           *)
(***************************************************************************)
Repeats == (0 - 1)..MaxRepeats

Elapsed == {0, 1234}

\* n / d rounded to the nearest integer, halves to the even one (Python's round)
RoundDiv(n, d) ==
    LET num == IF d < 0 THEN 0 - n ELSE n
        den == IF d < 0 THEN 0 - d ELSE d
        q == num \div den
        r == num - q * den
    IN  IF 2 * r < den THEN q
        ELSE IF 2 * r > den THEN q + 1
        ELSE IF q % 2 = 0 THEN q ELSE q + 1

\* x placed in the list S, ascending by k, after the elements whose key is <= key(x)
RECURSIVE InsertByKey(_, _, _)
InsertByKey(k, S, x) ==
    IF S = <<>> THEN <<x>>
    ELSE IF KeyVal(k, S[Len(S)]) <= KeyVal(k, x) THEN Append(S, x)
    ELSE Append(InsertByKey(k, SubSeq(S, 1, Len(S) - 1), x), S[Len(S)])

RECURSIVE StableSorted(_, _)
StableSorted(k, S) ==
    IF S = <<>> THEN <<>>
    ELSE InsertByKey(k, StableSorted(k, SubSeq(S, 1, Len(S) - 1)), S[Len(S)])

\* the keys of the elements of r from index i (1-based) on are computed in order
RECURSIVE keys_from(_, _, _, _)
keys_from(st, r, k, i) ==
    IF i > Len(st.heap[r]) \/ st.exc # NoExc THEN st
    ELSE keys_from(key_call(st, k, st.heap[r][i]), r, k, i + 1)

\* list.sort(key=k) on the caller's list itself
sorted_in_place(st, r, k) ==
    LET ks == keys_from(st, r, k, 1)
    IN  IF ks.exc # NoExc THEN [ks EXCEPT !.ret = None]
        ELSE [ks EXCEPT !.heap[r] = StableSorted(k, @), !.ret = Some(r)]
\* Python's sorted(r, key=k): the key of every element is computed once, then a new
\* list, stably sorted, is returned
builtin_sorted(st, r, k) ==
    LET ks == keys_from(st, r, k, 1)
    IN  IF ks.exc # NoExc THEN [ks EXCEPT !.ret = None]
        ELSE alloc(ks, StableSorted(k, ks.heap[r]))

\* the interpreter state of the current variables
Current == [heap |-> heap, key_calls |-> key_calls, compares |-> compares, log |-> log, exc |-> exc, ret |-> ret]

\* lines 181-184: the mapping benchmark_sort returns, for repeats # 0
benchmark_sort_result(repeats, custom_time, builtin_time) ==
    [merge_sort_ms     |-> RoundDiv(custom_time, repeats * 10),
     builtin_sorted_ms |-> RoundDiv(builtin_time, repeats * 10)]

BenchmarkSortEnter ==
    /\ pc = "idle"
    /\ \E S \in Lists, k \in Keys, r \in Repeats :
          /\ heap' = <<S>>
          /\ data' = Some(1)
          /\ key' = k
          /\ arg0' = S
          /\ bench' = [repeats |-> r, calls |-> 0, custom_time |-> None, builtin_time |-> None]
    /\ op' = "benchmark_sort"
    /\ pc' = "bench_merge"
    /\ UNCHANGED <<key_calls, compares, log, exc, ret, target, low, high, mid, mid_val, obj, args, files>>

\* one timed call f(data, key) of a benchmark loop: an exception ends the benchmark
TimedCall(st, next_pc) ==
    /\ key_calls' = st.key_calls
    /\ compares' = st.compares
    /\ log' = st.log
    /\ exc' = st.exc
    /\ heap' = <<st.heap[data[1]]>>
    /\ IF st.exc # NoExc
       THEN pc' = "done" /\ bench' = bench
       ELSE pc' = next_pc /\ bench' = [bench EXCEPT !.calls = @ + 1]
    /\ UNCHANGED <<ret, op, data, key, target, low, high, mid, mid_val, arg0,
                   obj, args, files>>

\* lines 174-176: one of the `repeats` timed calls merge_sort(data, key=key)
BenchmarkSortTimeMerge ==
    /\ pc = "bench_merge"
    /\ bench.calls < bench.repeats
    /\ TimedCall(merge_sort(Current, data[1], key), "bench_merge")

\* lines 174-176: timeit returns the elapsed time, custom_time
BenchmarkSortMergeTimed ==
    /\ pc = "bench_merge"
    /\ ~(bench.calls < bench.repeats)
    /\ \E t \in Elapsed : bench' = [bench EXCEPT !.custom_time = Some(t), !.calls = 0]
    /\ pc' = "bench_sorted"
    /\ UNCHANGED <<heap, key_calls, compares, log, exc, ret, op, data, key, target, low, high, mid, mid_val, arg0,
                   obj, args, files>>

\* lines 177-179: one of the `repeats` timed calls sorted(data, key=key)
BenchmarkSortTimeSorted ==
    /\ pc = "bench_sorted"
    /\ bench.calls < bench.repeats
    /\ TimedCall(builtin_sorted(Current, data[1], key), "bench_sorted")

\* lines 177-179: timeit returns the elapsed time, builtin_time
BenchmarkSortSortedTimed ==
    /\ pc = "bench_sorted"
    /\ ~(bench.calls < bench.repeats)
    /\ \E t \in Elapsed : bench' = [bench EXCEPT !.builtin_time = Some(t)]
    /\ pc' = "bench_return"
    /\ UNCHANGED <<heap, key_calls, compares, log, exc, ret, op, data, key, target, low, high, mid, mid_val, arg0,
                   obj, args, files>>

\* lines 181-184: custom_time / repeats divides by zero when repeats == 0
BenchmarkSortReturn ==
    /\ pc = "bench_return"
    /\ IF bench.repeats = 0
       THEN exc' = "ZeroDivisionError" /\ ret' = None
       ELSE /\ exc' = exc
            /\ ret' = Some(benchmark_sort_result(bench.repeats, bench.custom_time[1],
                                                 bench.builtin_time[1]))
    /\ pc' = "done"
    /\ UNCHANGED <<heap, key_calls, compares, log, op, data, key, target, low, high, mid, mid_val, arg0,
                   bench, obj, args, files>>

\* benchmark_search: the body is raise NotImplementedError("benchmark_search")
benchmark_search(st, d, t, k, repeats) ==
    [st EXCEPT !.exc = "NotImplementedError", !.ret = None]

CallBenchmarkSearch ==
    /\ pc = "idle"
    /\ \E S \in Lists, k \in Keys, t \in Targets, r \in Repeats :
          LET st == benchmark_search(Entry(S), 1, t, k, r)
          IN  /\ heap' = st.heap
              /\ key_calls' = st.key_calls
              /\ compares' = st.compares
              /\ log' = st.log
              /\ exc' = st.exc
              /\ ret' = IF st.exc = NoExc THEN st.ret ELSE None
              /\ data' = Some(1)
              /\ key' = k
              /\ target' = Some(t)
              /\ arg0' = S
              /\ bench' = [repeats |-> r, calls |-> 0, custom_time |-> None,
                           builtin_time |-> None]
    /\ op' = "benchmark_search"
    /\ pc' = "done"
    /\ UNCHANGED <<low, high, mid, mid_val, obj, args, files>>

(***************************************************************************)
(* Entity, Bike and ClassicBike (src/models.py:28-144).                    *)
(*                                                                         *)
(* A Python value whose type matters is a pair <<type, text>>, such as     *)
(* <<"str", "BK001">> or <<"int", "123">>.  An object under construction   *)
(* is the record of the attributes set so far; a constructor yields the    *)
(* exception it raised (NoExc when none) and the object.  An optional      *)
(* argument left out by the caller is None.                                *)
(***************************************************************************)
Ids == { <<"str", "BK001">>, <<"str", "BK010">>, <<"str", "">>, <<"int", "123">>,
         <<"int", "0">>, <<"NoneType", "None">> }

\* bool(v) for the values of Ids
Truthy(v) == v \notin { <<"str", "">>, <<"int", "0">>, <<"NoneType", "None">> }

\* isinstance(v, str)
IsStr(v) == v[1] = "str"

BikeTypes == {"classic", "electric", "scooter", "Classic"}

\* the values a caller assigns to status or passes as status
StatusValues == {"available", "in_use", "maintenance", "broken", "destroyed", "Available", ""}

\* the gear counts a caller passes
GearValues == {0 - 3, 0, 1, 21}

\* Bike.VALID_STATUSES (line 75)
VALID_STATUSES == {"available", "in_use", "maintenance"}

\* the defaults of the constructors' parameters (lines 81, 125, 126)
DefaultStatus == "available"
DefaultGearCount == 7

OrDefault(a, d) == IF a = None THEN d ELSE a[1]

Raised(e) == [exc |-> e, self |-> None]
Built(o) == [exc |-> NoExc, self |-> Some(o)]

\* Entity.__init__ without the isinstance test
Entity_init_truthy_only(self, id) ==
    IF ~Truthy(id) THEN Raised("ValueError")
    ELSE Built([self EXCEPT !.id = id])
\* Entity.__init__ (lines 36-40); created_at, a clock reading, is left out
Entity_init(self, id) ==
    IF ~Truthy(id) \/ ~IsStr(id) THEN Raised("ValueError")
    ELSE Built([self EXCEPT !.id = id])

\* Bike.__init__ (lines 77-89)
Bike_init(self, bike_id, bike_type, status) ==
    LET e == Entity_init(self, bike_id)
    IN  IF e.exc # NoExc THEN e
        ELSE IF bike_type \notin {"classic", "electric"} THEN Raised("ValueError")
        ELSE IF status \notin VALID_STATUSES THEN Raised("ValueError")
        ELSE Built([e.self[1] EXCEPT !.bike_type = bike_type, !.status = status])

\* ClassicBike.__init__ (lines 122-131)
ClassicBike_init(self, bike_id, gear_count, status) ==
    LET b == Bike_init(self, bike_id, "classic", status)
    IN  IF b.exc # NoExc THEN b
        ELSE IF gear_count <= 0 THEN Raised("ValueError")
        ELSE Built([b.self[1] EXCEPT !.gear_count = gear_count])

\* the status setter assigning before its test
Bike_status_set_assign_first(self, value) ==
    IF value \notin VALID_STATUSES
    THEN [exc |-> "ValueError", self |-> Some([self EXCEPT !.status = value])]
    ELSE Built([self EXCEPT !.status = value])
\* the status setter without its test
Bike_status_set_unchecked(self, value) ==
    Built([self EXCEPT !.status = value])
\* Bike.status setter (lines 99-103): the object is left as it was when it raises
Bike_status_set(self, value) ==
    IF value \notin VALID_STATUSES THEN [exc |-> "ValueError", self |-> Some(self)]
    ELSE Built([self EXCEPT !.status = value])

\* an object of class cls before __init__ ran: no attribute is set yet
NewObject(cls) ==
    [cls |-> cls, id |-> None, bike_type |-> None, status |-> None, gear_count |-> None,
     battery_level |-> None, max_range_km |-> None]

\* the caller's variables after a constructor call: obj is bound only when the
\* constructor returned
Constructed(r, f, a) ==
    /\ obj' = IF r.exc = NoExc THEN r.self ELSE None
    /\ exc' = r.exc
    /\ args' = a
    /\ op' = f
    /\ pc' = "object"
    /\ ret' = None
    /\ UNCHANGED algvars
    /\ UNCHANGED files

\* Bike(bike_id, bike_type[, status])
ConstructBike ==
    /\ pc = "idle"
    /\ \E i \in Ids, t \in BikeTypes, s \in {None} \cup {Some(v) : v \in StatusValues} :
          Constructed(Bike_init(NewObject("Bike"), i, t, OrDefault(s, DefaultStatus)),
                      "Bike.__init__",
                      [bike_id |-> i, bike_type |-> t, status |-> s, gear_count |-> None])

\* ClassicBike(bike_id[, gear_count][, status])
ConstructClassicBike ==
    /\ pc = "idle"
    /\ \E i \in Ids, g \in {None} \cup {Some(v) : v \in GearValues},
          s \in {None} \cup {Some(v) : v \in StatusValues} :
          Constructed(ClassicBike_init(NewObject("ClassicBike"), i,
                                       OrDefault(g, DefaultGearCount),
                                       OrDefault(s, DefaultStatus)),
                      "ClassicBike.__init__",
                      [bike_id |-> i, bike_type |-> "classic", status |-> s, gear_count |-> g])

\* bike.status = value, on the object the caller holds
AssignStatus ==
    /\ pc = "object"
    /\ obj # None
    /\ \E v \in StatusValues :
          LET r == Bike_status_set(obj[1], v)
          IN  /\ obj' = r.self
              /\ exc' = r.exc
              /\ args' = [value |-> v]
    /\ op' = "Bike.status.setter"
    /\ UNCHANGED <<pc, ret>>
    /\ UNCHANGED algvars
    /\ UNCHANGED files

(***************************************************************************)
(* ElectricBike (src/models.py:150-189).                                   *)
(*                                                                         *)
(* A Python float is <<"float", n>> for the number n, or NaN.  Every       *)
(* comparison with NaN is False, so `not (0.0 <= x <= 100.0)` is True for  *)
(* NaN while `x <= 0` is False for it.                                     *)
(***************************************************************************)
Float(n) == <<"float", n>>
NaN == <<"nan", 0>>

\* a <= b on floats
float_le(a, b) == a # NaN /\ b # NaN /\ a[2] <= b[2]

\* the floats a caller passes as battery_level and as max_range_km
BatteryValues == {Float(0 - 1), Float(0), Float(50), Float(100), Float(101), NaN}
RangeValues == {Float(0 - 5), Float(0), Float(1), Float(50), NaN}

\* the defaults of ElectricBike.__init__ (lines 156, 157)
DefaultBatteryLevel == Float(100)
DefaultMaxRange == Float(50)

\* 0.0 <= value <= 100.0 (lines 161, 174)
battery_in_range(value) == float_le(Float(0), value) /\ float_le(value, Float(100))

\* ElectricBike.__init__ (lines 153-166)
ElectricBike_init(self, bike_id, battery_level, max_range_km, status) ==
    LET b == Bike_init(self, bike_id, "electric", status)
    IN  IF b.exc # NoExc THEN b
        ELSE IF ~battery_in_range(battery_level) THEN Raised("ValueError")
        ELSE IF float_le(max_range_km, Float(0)) THEN Raised("ValueError")
        ELSE Built([b.self[1] EXCEPT !.battery_level = battery_level,
                                     !.max_range_km = max_range_km])

\* ElectricBike.battery_level setter (lines 172-176): the object is left as it was
\* when it raises
ElectricBike_battery_level_set(self, value) ==
    IF ~battery_in_range(value) THEN [exc |-> "ValueError", self |-> Some(self)]
    ELSE Built([self EXCEPT !.battery_level = value])

\* ElectricBike(bike_id[, battery_level][, max_range_km][, status])
ConstructElectricBike ==
    /\ pc = "idle"
    /\ \E i \in Ids, b \in {None} \cup {Some(v) : v \in BatteryValues},
          m \in {None} \cup {Some(v) : v \in RangeValues},
          s \in {None} \cup {Some(v) : v \in StatusValues} :
          Constructed(ElectricBike_init(NewObject("ElectricBike"), i,
                                        OrDefault(b, DefaultBatteryLevel),
                                        OrDefault(m, DefaultMaxRange),
                                        OrDefault(s, DefaultStatus)),
                      "ElectricBike.__init__",
                      [bike_id |-> i, battery_level |-> b, max_range_km |-> m, status |-> s])

\* bike.battery_level = value, on the electric bike the caller holds
AssignBatteryLevel ==
    /\ pc = "object"
    /\ obj # None
    /\ obj[1].cls = "ElectricBike"
    /\ \E v \in BatteryValues :
          LET r == ElectricBike_battery_level_set(obj[1], v)
          IN  /\ obj' = r.self
              /\ exc' = r.exc
              /\ args' = [value |-> v]
    /\ op' = "ElectricBike.battery_level.setter"
    /\ UNCHANGED <<pc, ret>>
    /\ UNCHANGED algvars
    /\ UNCHANGED files

(***************************************************************************)
(* Pricing strategies (src/pricing.py).  Money is counted in thousandths   *)
(* of a euro, so that the rates and the surcharge are integers.            *)
(***************************************************************************)
\* CasualPricing.UNLOCK_FEE, PER_MINUTE, PER_KM (lines 51-53)
UNLOCK_FEE == 1000
PER_MINUTE == 150
PER_KM == 100

\* PeakHourPricing.MULTIPLIER (lines 88 and 100), in tenths
MULTIPLIER == 15

\* the trips priced: duration_minutes and distance_km
Durations == {0, 1, 30}
Distances == {0, 2, 5}

Returned(v) == [exc |-> NoExc, ret |-> Some(v)]

\* CasualPricing.calculate_cost (lines 55-62)
CasualPricing_calculate_cost(d, k) ==
    Returned(UNLOCK_FEE + PER_MINUTE * d + PER_KM * k)

\* The body of class PeakHourPricing binds calculate_cost twice, at line 90 and
\* at line 102; the statements of a class body run in order.
PeakHourPricing_body == <<"line 90", "line 102">>

\* the function a name is bound to when the class body has run: the last binding
ClassAttr(body) == body[Len(body)]

\* def calculate_cost of lines 90-97
PeakHourPricing_calculate_cost_90(d, k) ==
    LET base_cost == CasualPricing_calculate_cost(d, k)
    IN  Returned((MULTIPLIER * base_cost.ret[1]) \div 10)

\* def calculate_cost of lines 102-106
PeakHourPricing_calculate_cost_102(d, k) ==
    [exc |-> "NotImplementedError", ret |-> None]

\* PeakHourPricing().calculate_cost(d, k)
PeakHourPricing_calculate_cost(d, k) ==
    IF ClassAttr(PeakHourPricing_body) = "line 90"
    THEN PeakHourPricing_calculate_cost_90(d, k)
    ELSE PeakHourPricing_calculate_cost_102(d, k)

\* the caller's variables after strategy.calculate_cost(d, k)
Priced(r, f, d, k) ==
    /\ exc' = r.exc
    /\ ret' = r.ret
    /\ op' = f
    /\ args' = [duration_minutes |-> d, distance_km |-> k]
    /\ pc' = "done"
    /\ UNCHANGED obj
    /\ UNCHANGED algvars
    /\ UNCHANGED files

CallCasualPricing ==
    /\ pc = "idle"
    /\ \E d \in Durations, k \in Distances :
          Priced(CasualPricing_calculate_cost(d, k), "CasualPricing.calculate_cost", d, k)

CallPeakHourPricing ==
    /\ pc = "idle"
    /\ \E d \in Durations, k \in Distances :
          Priced(PeakHourPricing_calculate_cost(d, k), "PeakHourPricing.calculate_cost", d, k)

(***************************************************************************)
(* Users (src/models.py:249-356) and create_user (src/factories.py:61-105).*)
(*                                                                         *)
(* The data dict is a record over Fields; a key the dict lacks is None and *)
(* a key it holds is Some(value).  An email is the tuple of its            *)
(* characters, a datetime is the integer yyyymmdd.                         *)
(***************************************************************************)
Fields == {"user_id", "name", "email", "user_type", "day_pass_count",
           "membership_start", "membership_end", "tier"}

UserIds == { <<"str", "U001">>, <<"str", "">>, <<"int", "123">> }
Names == {"Alice"}
Emails == { <<"a", "@", "b">>, <<"a", "b">> }
UserTypes == {"casual", "member", "Casual", "MEMBER", "admin"}
DayPassCounts == {"3", "-1", "many"}
StartDates == {"2024-01-01", ""}
EndDates == {"2023-01-01", "2025-01-01", "soon"}
Tiers == {"Premium", "gold"}

Maybe(S) == {None} \cup {Some(v) : v \in S}

\* the dicts create_user is called with
UserData ==
    [user_id : Maybe(UserIds), name : Maybe(Names), email : Maybe(Emails),
     user_type : Maybe(UserTypes), day_pass_count : Maybe(DayPassCounts),
     membership_start : Maybe(StartDates), membership_end : Maybe(EndDates),
     tier : Maybe(Tiers)]

\* the readings of datetime.now()
Clock == {20240615, 20261106}

Parsed(v) == [exc |-> NoExc, val |-> v]
Failed(e) == [exc |-> e, val |-> None]

\* str.lower() on the strings above
Lower(s) ==
    CASE s = "Casual" -> "casual"
      [] s = "MEMBER" -> "member"
      [] s = "Premium" -> "premium"
      [] OTHER -> s

\* int(s): ValueError for a string that is no integer literal
int(s) ==
    CASE s = "3" -> Parsed(3)
      [] s = "-1" -> Parsed(0 - 1)
      [] OTHER -> Failed("ValueError")

\* datetime.fromisoformat(s): ValueError for a string that is no ISO date
fromisoformat(s) ==
    CASE s = "2023-01-01" -> Parsed(20230101)
      [] s = "2024-01-01" -> Parsed(20240101)
      [] s = "2025-01-01" -> Parsed(20250101)
      [] OTHER -> Failed("ValueError")

\* "@" in email
HasAt(email) == \E i \in DOMAIN email : email[i] = "@"

\* MemberUser.VALID_TIERS (line 317)
VALID_TIERS == {"basic", "premium"}

\* a user object before __init__ ran
NewUser(cls) ==
    [cls |-> cls, id |-> None, name |-> None, email |-> None, user_type |-> None,
     day_pass_count |-> None, membership_start |-> None, membership_end |-> None,
     tier |-> None]

\* User.__init__ (lines 252-264)
User_init(self, user_id, name, email, user_type) ==
    LET e == Entity_init(self, user_id)
    IN  IF e.exc # NoExc THEN e
        ELSE IF ~HasAt(email) THEN Raised("ValueError")
        ELSE Built([e.self[1] EXCEPT !.name = name, !.email = email,
                                     !.user_type = user_type])

\* CasualUser.__init__ (lines 288-298)
CasualUser_init(self, user_id, name, email, day_pass_count) ==
    LET u == User_init(self, user_id, name, email, "casual")
    IN  IF u.exc # NoExc THEN u
        ELSE IF day_pass_count < 0 THEN Raised("ValueError")
        ELSE Built([u.self[1] EXCEPT !.day_pass_count = day_pass_count])

\* MemberUser.__init__ (lines 319-335)
MemberUser_init(self, user_id, name, email, membership_start, membership_end, tier) ==
    LET u == User_init(self, user_id, name, email, "member")
    IN  IF u.exc # NoExc THEN u
        ELSE IF membership_end <= membership_start THEN Raised("ValueError")
        ELSE IF tier \notin VALID_TIERS THEN Raised("ValueError")
        ELSE Built([u.self[1] EXCEPT !.membership_start = membership_start,
                                     !.membership_end = membership_end,
                                     !.tier = tier])

\* data[f] for each of the three subscripted keys, in the order of the call's
\* arguments: the first one the dict lacks raises KeyError
Subscripts(d) ==
    IF d.user_id = None \/ d.name = None \/ d.email = None THEN "KeyError" ELSE NoExc

\* a string read with data.get(f) is used when it is there and not empty
Given(a) == a # None /\ a[1] # ""

\* create_user: the casual branch (lines 75-81)
create_casual(d) ==
    IF Subscripts(d) # NoExc THEN Raised(Subscripts(d))
    ELSE LET day_pass_count == IF d.day_pass_count = None THEN Parsed(0)
                               ELSE int(d.day_pass_count[1])
         IN  IF day_pass_count.exc # NoExc THEN Raised(day_pass_count.exc)
             ELSE CasualUser_init(NewUser("CasualUser"), d.user_id[1], d.name[1],
                                  d.email[1], day_pass_count.val)

\* create_user: the member branch (lines 83-102)
create_member(d, now) ==
    LET membership_start == IF Given(d.membership_start)
                            THEN fromisoformat(d.membership_start[1])
                            ELSE Parsed(now)
        membership_end == IF Given(d.membership_end)
                          THEN fromisoformat(d.membership_end[1])
                          ELSE membership_start
    IN  IF membership_start.exc # NoExc THEN Raised(membership_start.exc)
        ELSE IF membership_end.exc # NoExc THEN Raised(membership_end.exc)
        ELSE IF Subscripts(d) # NoExc THEN Raised(Subscripts(d))
        ELSE MemberUser_init(NewUser("MemberUser"), d.user_id[1], d.name[1], d.email[1],
                             membership_start.val, membership_end.val,
                             Lower(OrDefault(d.tier, "basic")))

\* create_user(data), with now the reading of the clock (lines 61-105); the
\* caller holds the returned user in obj
create_user(d, now) ==
    LET user_type == Lower(OrDefault(d.user_type, ""))
    IN  IF user_type = "casual" THEN create_casual(d)
        ELSE IF user_type = "member" THEN create_member(d, now)
        ELSE Raised("ValueError")

CallCreateUser ==
    /\ pc = "idle"
    /\ \E d \in UserData, now \in Clock :
          LET r == create_user(d, now)
          IN  /\ exc' = r.exc
              /\ obj' = r.self
              /\ args' = [data |-> d]
    /\ op' = "create_user"
    /\ pc' = "done"
    /\ UNCHANGED ret
    /\ UNCHANGED algvars
    /\ UNCHANGED files

(***************************************************************************)
(* _merge called on two lists of the caller (src/algorithms.py:51-68).     *)
(***************************************************************************)
\* the pairs of lists passed as left and right: the two parts of a list of Lists
MergePairs ==
    UNION { { <<SubSeq(S, 1, i), SubSeq(S, i + 1, Len(S))>> : i \in 0..Len(S) } : S \in Lists }

\* _merge(left, right, key) with left at reference 1 and right at reference 2
CallMerge ==
    /\ pc = "idle"
    /\ \E p \in MergePairs, k \in Keys :
          LET st == _merge([heap |-> <<p[1], p[2]>>, key_calls |-> 0, compares |-> 0, log |-> <<>>, exc |-> NoExc,
                            ret |-> None], 1, 2, k)
          IN  /\ heap' = st.heap
              /\ key_calls' = st.key_calls
              /\ compares' = st.compares
              /\ log' = st.log
              /\ exc' = st.exc
              /\ ret' = IF st.exc = NoExc THEN st.ret ELSE None
              /\ key' = k
              /\ arg0' = p[1]
              /\ args' = [left |-> p[1], right |-> p[2]]
    /\ pc' = "done"
    /\ op' = "_merge"
    /\ data' = Some(1)
    /\ UNCHANGED <<target, low, high, mid, mid_val, bench, obj, files>>

(***************************************************************************)
(* The caller mutates the list merge_sort returned (src/algorithms.py:41-  *)
(* 48 return a reference the caller then owns).                            *)
(***************************************************************************)
\* the element the caller writes: it is in none of the enumerated lists
Marker == <<0, 2>>

\* the caller's variables after one mutation of the returned list
Mutated(st) ==
    /\ heap' = st.heap
    /\ pc' = "mutated"
    /\ UNCHANGED <<key_calls, compares, log, exc, ret, op, data, key, target, low, high, mid, mid_val,
                   arg0, bench, obj, args, files>>

\* result.append(Marker)
AppendToResult ==
    /\ pc = "done" /\ op = "merge_sort" /\ exc = NoExc
    /\ Mutated(list_append([heap |-> heap], ret[1], Marker))

\* result[i] = Marker
AssignResultElement ==
    /\ pc = "done" /\ op = "merge_sort" /\ exc = NoExc
    /\ \E i \in 0..(Len(heap[ret[1]]) - 1) :
          Mutated(list_setitem([heap |-> heap], ret[1], i, Marker))

(***************************************************************************)
(* BikeShareSystem: __init__, load_data and clean_data                     *)
(* (src/analyzer.py:21-151).                                               *)
(*                                                                         *)
(* A DataFrame is the sequence of its rows, a row a record of cells.  A    *)
(* cell is None when the value is missing (NaN, NaT) and else a pair       *)
(* <<type, value>>: <<"str", text>> as read from the CSV file, <<"num", n>>*)
(* and <<"ts", t>> once parsed (a timestamp is the integer hhmm).  The     *)
(* categorical columns hold strings, as in the files of the repository.    *)
(***************************************************************************)
MaxRows == 2    \* tables of up to MaxRows rows

Str(s) == <<"str", s>>

\* a trip row with nothing wrong, as read from trips.csv
GoodTrip ==
    [trip_id |-> Str("T1"), user_id |-> Str("U1"), bike_id |-> Str("BK1"),
     start_station_id |-> Str("S1"), end_station_id |-> Str("S2"),
     start_time |-> Str("09:00"), end_time |-> Str("10:00"),
     duration_minutes |-> Str("60"), distance_km |-> Str("5"),
     status |-> Str("Completed "), user_type |-> Str(" Member")]

\* the rows of the trips.csv files loaded: the good row, a second trip, a second
\* row with the id of the first, and rows with one defect each
TripRows ==
    { GoodTrip,
      [GoodTrip EXCEPT !.trip_id = Str("T2"), !.user_type = None],
      [GoodTrip EXCEPT !.duration_minutes = Str("45")],
      [GoodTrip EXCEPT !.trip_id = None],
      [GoodTrip EXCEPT !.trip_id = Str("T2"), !.bike_id = None],
      [GoodTrip EXCEPT !.start_time = Str("soon")],
      [GoodTrip EXCEPT !.trip_id = Str("T2"), !.end_time = Str("08:00")],
      [GoodTrip EXCEPT !.duration_minutes = Str("-3")],
      [GoodTrip EXCEPT !.trip_id = Str("T2"), !.distance_km = Str("far")],
      [GoodTrip EXCEPT !.distance_km = Str("-1")],
      [GoodTrip EXCEPT !.trip_id = Str("T2"), !.status = None] }

GoodStation == [station_id |-> Str("S1"), station_name |-> Str("Central")]

StationRows ==
    { GoodStation,
      [GoodStation EXCEPT !.station_name = None],
      [GoodStation EXCEPT !.station_id = Str("S2")],
      [GoodStation EXCEPT !.station_id = None] }

GoodRecord ==
    [record_id |-> Str("M1"), bike_id |-> Str("BK1"), date |-> Str("09:00"),
     maintenance_type |-> Str(" Repair"), cost |-> Str("5")]

MaintenanceRows ==
    { GoodRecord,
      [GoodRecord EXCEPT !.cost = Str("45")],
      [GoodRecord EXCEPT !.record_id = Str("M2"), !.cost = Str("far")],
      [GoodRecord EXCEPT !.record_id = Str("M2"), !.date = Str("soon")],
      [GoodRecord EXCEPT !.record_id = None] }

\* The contents of the three files of one data directory.  clean_data treats the
\* three tables separately, so one table varies at a time.
Datasets ==
    { [trips |-> t, stations |-> <<GoodStation>>, maintenance |-> <<GoodRecord>>] :
         t \in SeqsUpTo(TripRows, MaxRows) }
    \cup { [trips |-> <<GoodTrip>>, stations |-> t, maintenance |-> <<GoodRecord>>] :
         t \in SeqsUpTo(StationRows, MaxRows) }
    \cup { [trips |-> <<GoodTrip>>, stations |-> <<GoodStation>>, maintenance |-> t] :
         t \in SeqsUpTo(MaintenanceRows, MaxRows) }

\* pd.to_datetime(cell, errors="coerce"): a timestamp, or NaT for a missing cell and
\* for text that is no time
to_datetime(c) ==
    CASE c = None -> None
      [] c[1] = "ts" -> c
      [] c = Str("08:00") -> <<"ts", 800>>
      [] c = Str("09:00") -> <<"ts", 900>>
      [] c = Str("10:00") -> <<"ts", 1000>>
      [] OTHER -> None

\* pd.to_numeric(cell, errors="coerce"): a number, or NaN for a missing cell and for
\* text that is no number
to_numeric(c) ==
    CASE c = None -> None
      [] c[1] = "num" -> c
      [] c = Str("60") -> <<"num", 60>>
      [] c = Str("45") -> <<"num", 45>>
      [] c = Str("5") -> <<"num", 5>>
      [] c = Str("-3") -> <<"num", 0 - 3>>
      [] c = Str("-1") -> <<"num", 0 - 1>>
      [] OTHER -> None

\* series.str.lower().str.strip() on one cell; a missing cell stays missing
lower_strip(c) ==
    CASE c = None -> None
      [] c = Str("Completed ") -> Str("completed")
      [] c = Str(" Member") -> Str("member")
      [] c = Str(" Repair") -> Str("repair")
      [] OTHER -> c

\* series.fillna(v) on one cell
fillna(c, v) == IF c = None THEN v ELSE c

\* df.drop_duplicates() with no subset: only rows equal in every column are dropped
drop_duplicates_whole_rows(t, col) ==
    LET first(i) == \A j \in 1..(i - 1) : t[j] # t[i]
        kept == {i \in DOMAIN t : first(i)}
        nth(n) == CHOOSE i \in kept : Cardinality({j \in kept : j < i}) = n - 1
    IN  [n \in 1..Cardinality(kept) |-> t[nth(n)]]
\* df.drop_duplicates(subset=[col]): the first row of every value of col is kept;
\* missing values count as equal
drop_duplicates(t, col) ==
    LET first(i) == \A j \in 1..(i - 1) : t[j][col] # t[i][col]
        kept == {i \in DOMAIN t : first(i)}
        nth(n) == CHOOSE i \in kept : Cardinality({j \in kept : j < i}) = n - 1
    IN  [n \in 1..Cardinality(kept) |-> t[nth(n)]]

\* df.dropna(subset=cols): the rows with no missing cell in cols
dropna(t, cols) ==
    LET complete(r) == \A c \in cols : r[c] # None IN SelectSeq(t, complete)

\* df[df[a] >= df[b]]: a comparison with a missing value is False
rows_ge(t, a, b) ==
    LET ge(r) == r[a] # None /\ r[b] # None /\ r[a][2] >= r[b][2] IN SelectSeq(t, ge)

\* df[df[a] >= 0]
rows_nonneg(t, a) ==
    LET ge(r) == r[a] # None /\ r[a][2] >= 0 IN SelectSeq(t, ge)

\* the files load_data reads, in the order it reads them (lines 41-43)
DataFiles == <<"trips", "stations", "maintenance">>

\* BikeShareSystem.__init__ (lines 30-33)
BikeShareSystem_init ==
    [cls |-> "BikeShareSystem", trips |-> None, stations |-> None, maintenance |-> None]

\* load_data (lines 39-47) in a data directory holding ds, where the files from
\* the n-th on are not there (n = 4: all are there): pd.read_csv raises
\* FileNotFoundError at the first file it does not find
load_data(self, ds, n) ==
    [exc  |-> IF n <= Len(DataFiles) THEN "FileNotFoundError" ELSE NoExc,
     self |-> [a \in DOMAIN self |->
                 IF \E i \in 1..(n - 1) : DataFiles[i] = a THEN Some(ds[a]) ELSE self[a]]]

\* the guard of clean_data testing trips only
not_loaded_trips_only(self) == self.trips = None
\* the guard of clean_data (line 83)
not_loaded(self) ==
    self.trips = None \/ self.stations = None \/ self.maintenance = None

\* the columns of dropna (lines 112-117)
TripsCritical ==
    {"trip_id", "user_id", "bike_id", "start_station_id", "end_station_id",
     "start_time", "end_time", "duration_minutes", "distance_km", "status"}
MaintenanceCritical == {"record_id", "bike_id", "date", "maintenance_type", "cost"}

\* the trips table through steps 2 to 6 of clean_data (lines 99-138); the table
\* has a user_type column and no bike_type column
clean_trips(t) ==
    LET parsed == [i \in DOMAIN t |->
                      [t[i] EXCEPT !.start_time = to_datetime(@),
                                   !.end_time = to_datetime(@)]]
        numeric == [i \in DOMAIN parsed |->
                       [parsed[i] EXCEPT !.duration_minutes = to_numeric(@),
                                         !.distance_km = to_numeric(@)]]
        valid == rows_nonneg(rows_nonneg(rows_ge(dropna(numeric, TripsCritical),
                                                 "end_time", "start_time"),
                                         "duration_minutes"),
                             "distance_km")
    IN  [i \in DOMAIN valid |->
            [valid[i] EXCEPT !.status = lower_strip(@), !.user_type = lower_strip(@)]]

\* the stations table: missing names filled (line 120)
clean_stations(t) ==
    [i \in DOMAIN t |-> [t[i] EXCEPT !.station_name = fillna(@, Str("Unknown"))]]

\* the maintenance table through steps 2 to 6
clean_maintenance(t) ==
    LET parsed == [i \in DOMAIN t |->
                      [t[i] EXCEPT !.date = to_datetime(@), !.cost = to_numeric(@)]]
        complete == dropna(parsed, MaintenanceCritical)
    IN  [i \in DOMAIN complete |->
            [complete[i] EXCEPT !.maintenance_type = lower_strip(@)]]

\* clean_data (lines 71-151).  The three drop_duplicates run first, in the order
\* trips, stations, maintenance: a call of a method on None raises AttributeError
\* with the attributes assigned before it changed.
clean_data(self, fs) ==
    IF not_loaded(self) THEN [exc |-> "RuntimeError", self |-> self, files |-> fs]
    ELSE LET t1 == [self EXCEPT !.trips = Some(drop_duplicates(@[1], "trip_id"))]
         IN  IF t1.stations = None THEN [exc |-> "AttributeError", self |-> t1, files |-> fs]
             ELSE LET t2 == [t1 EXCEPT !.stations =
                                           Some(drop_duplicates(@[1], "station_id"))]
                  IN  IF t2.maintenance = None
                      THEN [exc |-> "AttributeError", self |-> t2, files |-> fs]
                      ELSE LET trips == clean_trips(t2.trips[1])
                               stations == clean_stations(t2.stations[1])
                               maintenance ==
                                   clean_maintenance(
                                       drop_duplicates(t2.maintenance[1], "record_id"))
                           IN  [exc |-> NoExc,
                                self |-> [t2 EXCEPT !.trips = Some(trips),
                                                    !.stations = Some(stations),
                                                    !.maintenance = Some(maintenance)],
                                files |-> [trips_clean |-> Some(trips),
                                           stations_clean |-> Some(stations),
                                           maintenance_clean |-> Some(maintenance)]]

\* the caller's variables after a call on the system object
SystemCall(r, f, fs, a) ==
    /\ obj' = Some(r.self)
    /\ exc' = r.exc
    /\ files' = fs
    /\ args' = a
    /\ op' = f
    /\ pc' = "system"
    /\ UNCHANGED ret
    /\ UNCHANGED algvars

\* system = BikeShareSystem()
ConstructSystem ==
    /\ pc = "idle"
    /\ SystemCall([exc |-> NoExc, self |-> BikeShareSystem_init],
                  "BikeShareSystem.__init__", files, args)

\* system.load_data(), once per system object
LoadData ==
    /\ pc = "system"
    /\ obj[1] = BikeShareSystem_init
    /\ \E ds \in Datasets, n \in 1..(Len(DataFiles) + 1) :
          SystemCall(load_data(obj[1], ds, n), "load_data", files,
                     [dataset |-> ds, found |-> n - 1])

\* system.clean_data()
CleanData ==
    /\ pc = "system"
    /\ LET r == clean_data(obj[1], files)
       IN  SystemCall(r, "clean_data", r.files, args)

Next ==
    \/ CallMergeSort
    \/ CallMerge
    \/ AppendToResult
    \/ AssignResultElement
    \/ CallInsertionSort
    \/ CallLinearSearch
    \/ BinarySearchEnter
    \/ BinarySearchWhile
    \/ BinarySearchBody
    \/ BinarySearchReturnNone
    \/ BenchmarkSortEnter
    \/ BenchmarkSortTimeMerge
    \/ BenchmarkSortMergeTimed
    \/ BenchmarkSortTimeSorted
    \/ BenchmarkSortSortedTimed
    \/ BenchmarkSortReturn
    \/ CallBenchmarkSearch
    \/ ConstructBike
    \/ ConstructClassicBike
    \/ AssignStatus
    \/ CallCasualPricing
    \/ CallPeakHourPricing
    \/ CallCreateUser
    \/ ConstructElectricBike
    \/ AssignBatteryLevel
    \/ ConstructSystem
    \/ LoadData
    \/ CleanData

Spec == Init /\ [][Next]_vars

\* Once entered, the interpreter keeps executing binary_search's statements.
FairSpec ==
    /\ Spec
    /\ WF_vars(BinarySearchWhile)
    /\ WF_vars(BinarySearchBody)
    /\ WF_vars(BinarySearchReturnNone)

(***************************************************************************)
(* Vocabulary of the properties.                                           *)
(***************************************************************************)
\* the key function k yields a key for every element of S
KeyTotal(k, S) == \A i \in DOMAIN S : ~KeyRaises(k, S[i])

\* k is non-decreasing across consecutive elements of S
AscendingBy(k, S) ==
    \A i \in 1..(Len(S) - 1) : KeyVal(k, S[i]) <= KeyVal(k, S[i + 1])

Count(S, e) == Cardinality({i \in DOMAIN S : S[i] = e})
Range(S) == {S[i] : i \in DOMAIN S}

\* same elements, same multiplicities
IsPermutation(A, B) ==
    /\ Len(A) = Len(B)
    /\ \A e \in Range(A) \cup Range(B) : Count(A, e) = Count(B, e)

\* the elements of S whose key is v, in their order in S
WithKey(k, S, v) ==
    LET Has(x) == KeyVal(k, x) = v IN SelectSeq(S, Has)

\* the elements of every key appear in A in the order they have in B
SameOrderAmongTies(k, A, B) ==
    \A v \in {KeyVal(k, x) : x \in Range(A) \cup Range(B)} : WithKey(k, A, v) = WithKey(k, B, v)

\* the call of f ran to its end, with a key function defined on the whole list
Ended(f) == pc = "done" /\ op = f /\ KeyTotal(key, arg0)

\* the call returned (did not raise) a reference to a list
ReturnedList == exc = NoExc /\ ret # None /\ ret[1] \in DOMAIN heap
Result == heap[ret[1]]

\* C1: merge_sort(S, k) returns a permutation of S in which k is non-decreasing
\* across consecutive elements; merge_sort([5,3,1,4,2]) == [1,2,3,4,5].
MergeSortSortedPermutation ==
    Ended("merge_sort") =>
        /\ ReturnedList
        /\ IsPermutation(Result, arg0)
        /\ AscendingBy(key, Result)
        /\ (arg0 = Unsorted5 /\ key = "identity" => Result = Sorted5)

MergeSortSortedPermutationWitness ==
    /\ Ended("merge_sort") /\ ReturnedList
    /\ arg0 = Unsorted5 /\ key = "identity" /\ Result = Sorted5

\* C2: merge_sort is stable: elements of equal key keep the relative order they
\* have in the input; [(1,a),(2,b),(1,c)] by first component gives [(1,a),(1,c),(2,b)].
MergeSortStable ==
    Ended("merge_sort") =>
        /\ ReturnedList
        /\ SameOrderAmongTies(key, Result, arg0)
        /\ (arg0 = Stable3 /\ key = "first" => Result = << <<1,0>>, <<1,2>>, <<2,1>> >>)

MergeSortStableWitness ==
    /\ Ended("merge_sort") /\ ReturnedList
    /\ arg0 = Stable3 /\ key = "first" /\ Result = << <<1,0>>, <<1,2>>, <<2,1>> >>

\* C3: insertion_sort(S, k) returns a new list that is a permutation of S with k
\* non-decreasing across consecutive elements.
InsertionSortSortedPermutation ==
    Ended("insertion_sort") =>
        /\ ReturnedList
        /\ ret[1] # data[1]
        /\ IsPermutation(Result, arg0)
        /\ AscendingBy(key, Result)

\* C4: insertion_sort is stable: elements of equal key keep the relative order
\* they have in the input.
InsertionSortStable ==
    Ended("insertion_sort") =>
        /\ ReturnedList
        /\ SameOrderAmongTies(key, Result, arg0)

\* C5: merge_sort(S, k) and insertion_sort(S, k) return lists equal element for
\* element.
InsertionSortEqualsMergeSort ==
    Ended("insertion_sort") =>
        /\ ReturnedList
        /\ LET ms == merge_sort(Entry(arg0), 1, key)
           IN  Result = ms.heap[ms.ret[1]]

\* the indices (0-based) of S whose key equals t
Matches(k, S, t) == {i \in 0..(Len(S) - 1) : KeyVal(k, S[i + 1]) = t}

\* C6: on a list ascending by key, binary_search returns an index whose key equals
\* the target when some element has that key, and None when none has.
BinarySearchFinds ==
    [](  (op = "binary_search" /\ KeyTotal(key, arg0) /\ AscendingBy(key, arg0))
      => <>( /\ pc = "done" /\ op = "binary_search"
             /\ exc = NoExc
             /\ IF Matches(key, arg0, target[1]) # {}
                THEN ret # None /\ ret[1] \in Matches(key, arg0, target[1])
                ELSE ret = None ))

\* C7: binary_search terminates on every finite list, sorted or not, and every
\* target.
BinarySearchTerminates == (op = "binary_search") ~> (pc = "done")

Min(I) == CHOOSE i \in I : \A j \in I : i <= j

\* C8: linear_search(S, target, key) returns the smallest index whose key equals
\* the target, or None when no element has that key.
LinearSearchFirstMatch ==
    Ended("linear_search") =>
        /\ exc = NoExc
        /\ ret = IF Matches(key, arg0, target[1]) # {}
                 THEN Some(Min(Matches(key, arg0, target[1])))
                 ELSE None

\* C9: from the moment merge_sort, insertion_sort, binary_search or linear_search
\* is called, and after it returned or raised, the list passed as the sequence
\* argument holds the elements it held at the call, in the same order.
ArgumentNotMutated == data # None => heap[data[1]] = arg0

ArgumentNotMutatedWitness ==
    /\ pc = "done" /\ op = "merge_sort" /\ ReturnedList
    /\ Len(arg0) >= 3 /\ Result # arg0
    /\ heap[data[1]] = arg0

\* C10: the empty sequence is a valid input to all four primitives: the sorts
\* return an empty list, the searches return None, and none raises.
EmptyInputValid ==
    (/\ pc = "done" /\ arg0 = <<>>
     /\ op \in {"merge_sort", "insertion_sort", "binary_search", "linear_search"}) =>
        /\ exc = NoExc
        /\ (op \in {"merge_sort", "insertion_sort"} => ReturnedList /\ Result = <<>>)
        /\ (op \in {"binary_search", "linear_search"} => ret = None)

\* C11: sorting is idempotent: merge_sort of a list already ascending by key is
\* equal to that list in content and order, hence sorting the result of merge_sort
\* again gives the same list.
MergeSortIdempotent ==
    Ended("merge_sort") =>
        /\ ReturnedList
        /\ (AscendingBy(key, arg0) => Result = arg0)
        /\ LET again == merge_sort(Entry(Result), 1, key)
           IN  again.exc = NoExc /\ again.heap[again.ret[1]] = Result

\* an ascending list with a tie between distinct elements
MergeSortIdempotentWitness ==
    /\ Ended("merge_sort") /\ ReturnedList
    /\ key = "first"
    /\ arg0 = << <<0,1>>, <<0,0>>, <<1,0>> >> /\ Result = arg0

\* C12: for repeats >= 1, benchmark_search returns a mapping whose keys are exactly
\* "binary_search_ms", "linear_search_ms" and "builtin_index_ms".
BenchmarkSearchMapping ==
    (/\ pc = "done" /\ op = "benchmark_search"
     /\ bench.repeats >= 1 /\ KeyTotal(key, arg0)) =>
        /\ exc = NoExc
        /\ ret # None
        /\ DOMAIN ret[1] = {"binary_search_ms", "linear_search_ms", "builtin_index_ms"}

\* C13: benchmark_sort called with repeats <= 0 is rejected with an explicit
\* invalid-argument error (ValueError) and returns no timing mapping.
BenchmarkSortRejectsBadRepeats ==
    (pc = "done" /\ op = "benchmark_sort" /\ bench.repeats <= 0) =>
        exc = "ValueError" /\ ret = None

\* C14: for repeats >= 1, data has its original contents and order at the start of
\* every timed call of benchmark_sort and when it returns, and it returns a mapping
\* with the keys "merge_sort_ms" and "builtin_sorted_ms".
BenchmarkSortKeepsData ==
    (op = "benchmark_sort" /\ bench.repeats >= 1) =>
        /\ heap[data[1]] = arg0
        /\ (pc = "done" /\ KeyTotal(key, arg0)) =>
              /\ exc = NoExc
              /\ ret # None
              /\ DOMAIN ret[1] = {"merge_sort_ms", "builtin_sorted_ms"}

\* both loops ran twice on an unsorted list and the mapping was returned
BenchmarkSortKeepsDataWitness ==
    /\ op = "benchmark_sort" /\ pc = "done" /\ exc = NoExc /\ ret # None
    /\ bench.repeats >= 2 /\ bench.calls = bench.repeats
    /\ Len(arg0) >= 3 /\ StableSorted(key, arg0) # arg0
    /\ heap[data[1]] = arg0

\* C15 as claimed: for every list S and key k that raises on at least one element
\* of S, merge_sort(S, k) ends by raising that failure instead of returning a list.
MergeSortRaisesKeyFailureAnyLength ==
    (pc = "done" /\ op = "merge_sort" /\ ~KeyTotal(key, arg0)) =>
        exc = "ZeroDivisionError" /\ ret = None

\* C15 amended: for every list S of at least two elements and key k that raises on
\* at least one element of S, merge_sort(S, k) ends by raising that failure instead
\* of returning a list.  (A list of length <= 1 is copied without a key invocation.)
MergeSortRaisesKeyFailure ==
    (pc = "done" /\ op = "merge_sort" /\ ~KeyTotal(key, arg0) /\ Len(arg0) >= 2) =>
        exc = "ZeroDivisionError" /\ ret = None

\* the key fails on the last element only, after successful invocations
MergeSortRaisesKeyFailureWitness ==
    /\ pc = "done" /\ op = "merge_sort" /\ key = "recip"
    /\ Len(arg0) = 3 /\ arg0[1][1] # 0 /\ arg0[2][1] # 0 /\ arg0[3][1] = 0
    /\ exc = "ZeroDivisionError" /\ ret = None /\ key_calls >= 2

\* C16: on every list, sorted or not, binary_search raises no error of its own (the
\* only exception is one the key function raised, and no probe is outside the
\* list), and a returned value other than None is an index i with 0 <= i < len(S)
\* and key(S[i]) == target.
BinarySearchSafe ==
    op = "binary_search" =>
        /\ exc # NoExc => (exc = "ZeroDivisionError" /\ ~KeyTotal(key, arg0))
        /\ mid # None => mid[1] \in 0..(Len(arg0) - 1)
        /\ (pc = "done" /\ exc = NoExc /\ ret # None) =>
              /\ ret[1] \in 0..(Len(arg0) - 1)
              /\ KeyVal(key, arg0[ret[1] + 1]) = target[1]

\* an unsorted list probed MaxProbes times without an error
BinarySearchSafeWitness ==
    /\ op = "binary_search" /\ exc = NoExc
    /\ KeyTotal(key, arg0) /\ ~AscendingBy(key, arg0) /\ Len(arg0) >= 3
    /\ mid # None /\ key_calls = MaxProbes

\* C17: in every state of a Bike, after construction and after any sequence of
\* status assignments, status is one of 'available', 'in_use', 'maintenance'; a
\* valid assignment makes status the assigned value and an assignment of any other
\* value raises ValueError.
BikeStatusValid ==
    /\ (obj # None /\ obj[1].cls \in {"Bike", "ClassicBike"})
          => obj[1].status \in {"available", "in_use", "maintenance"}
    /\ op = "Bike.status.setter" =>
          IF args.value \in {"available", "in_use", "maintenance"}
          THEN exc = NoExc /\ obj[1].status = args.value
          ELSE exc = "ValueError"

\* an invalid assignment to a Bike whose status had been set to 'in_use'
BikeStatusValidWitness ==
    /\ op = "Bike.status.setter" /\ obj # None /\ obj[1].cls = "Bike"
    /\ args.value = "destroyed" /\ exc = "ValueError"
    /\ obj[1].status = "in_use"

\* C18: the Bike and ClassicBike constructors raise ValueError when the id is empty
\* or not a string, when bike_type is not 'classic' or 'electric', when status is
\* not a valid status, or when gear_count <= 0; otherwise the object's id,
\* bike_type, status and gear_count equal the arguments (defaults: status
\* 'available', gear_count 7).
BikeConstructorValidates ==
    op \in {"Bike.__init__", "ClassicBike.__init__"} =>
        LET bad == \/ args.bike_id[1] # "str"
                   \/ args.bike_id[2] = ""
                   \/ args.bike_type \notin {"classic", "electric"}
                   \/ (args.status # None
                       /\ args.status[1] \notin {"available", "in_use", "maintenance"})
                   \/ (args.gear_count # None /\ args.gear_count[1] <= 0)
        IN  IF bad
            THEN exc = "ValueError" /\ obj = None
            ELSE /\ exc = NoExc /\ obj # None
                 /\ obj[1].id = args.bike_id
                 /\ obj[1].bike_type = args.bike_type
                 /\ obj[1].status = IF args.status = None THEN "available" ELSE args.status[1]
                 /\ op = "ClassicBike.__init__" =>
                       obj[1].gear_count = IF args.gear_count = None THEN 7
                                           ELSE args.gear_count[1]

\* ClassicBike(bike_id="BK010", gear_count=0) is rejected
BikeConstructorValidatesWitness ==
    /\ op = "ClassicBike.__init__"
    /\ args.bike_id = <<"str", "BK010">> /\ args.gear_count = Some(0) /\ args.status = None
    /\ exc = "ValueError" /\ obj = None

\* C19: for all non-negative duration_minutes d and distance_km k,
\* PeakHourPricing().calculate_cost(d, k) returns 1.5 times
\* CasualPricing().calculate_cost(d, k), i.e. 1.5 * (1.00 + 0.15*d + 0.10*k)
\* (here in thousandths of a euro).
PeakHourIsSurchargedCasual ==
    op = "PeakHourPricing.calculate_cost" =>
        /\ exc = NoExc
        /\ ret = Some((15 * (1000 + 150 * args.duration_minutes
                                  + 100 * args.distance_km)) \div 10)

\* C20: for every dict that holds a non-empty string 'user_id', a 'name', an
\* 'email' containing '@' and a 'user_type' equal, whatever its case, to 'casual'
\* or 'member', and no other field, create_user returns a CasualUser or a
\* MemberUser respectively.
CreateUserBuildsUser ==
    LET d == args.data
    IN  (/\ op = "create_user"
         /\ d.user_id # None /\ d.user_id[1][1] = "str" /\ d.user_id[1][2] # ""
         /\ d.name # None
         /\ d.email # None /\ (\E i \in DOMAIN d.email[1] : d.email[1][i] = "@")
         /\ d.user_type \in {Some("casual"), Some("Casual"), Some("member"), Some("MEMBER")}
         /\ \A f \in {"day_pass_count", "membership_start", "membership_end", "tier"} :
               d[f] = None)
        => /\ exc = NoExc
           /\ obj # None
           /\ obj[1].cls = IF d.user_type \in {Some("casual"), Some("Casual")}
                           THEN "CasualUser" ELSE "MemberUser"

\* C21: create_user raises ValueError when 'user_type' is unknown or when a
\* required field ('user_id', 'name' or 'email') is missing from the data dict; no
\* other error kind reaches the caller for these inputs.
CreateUserRaisesValueError ==
    LET d == args.data
    IN  (/\ op = "create_user"
         /\ \/ d.user_type \notin {Some("casual"), Some("Casual"), Some("member"),
                                   Some("MEMBER")}
            \/ d.user_id = None \/ d.name = None \/ d.email = None)
        => exc = "ValueError"

\* the n-th smallest member of the set of positions P
Nth(P, n) == CHOOSE p \in P : Cardinality({q \in P : q < p}) = n - 1

\* the elements of S at the positions P, in their order in S
Pick(S, P) == [n \in 1..Cardinality(P) |-> S[Nth(P, n)]]

\* C22: for two lists left and right each ascending by key, _merge returns a list
\* of length len(left)+len(right), ascending by key, whose positions split into
\* those of left and those of right, each side in its original order (so the tail
\* of the side not yet exhausted follows in its order), with every left element
\* before every right element of equal key.
MergeInterleaves ==
    (/\ pc = "done" /\ op = "_merge"
     /\ KeyTotal(key, args.left) /\ KeyTotal(key, args.right)
     /\ AscendingBy(key, args.left) /\ AscendingBy(key, args.right))
    => /\ ReturnedList
       /\ Len(Result) = Len(args.left) + Len(args.right)
       /\ AscendingBy(key, Result)
       /\ \E P \in SUBSET (1..Len(Result)) :
             LET Q == (1..Len(Result)) \ P
             IN  /\ Pick(Result, P) = args.left
                 /\ Pick(Result, Q) = args.right
                 /\ \A i \in P, j \in Q :
                       KeyVal(key, Result[i]) = KeyVal(key, Result[j]) => i < j

\* left = [(0,a),(1,a)] and right = [(0,b)] under the key x[0]: the tie is
\* resolved for left, and the tail of left follows
MergeInterleavesWitness ==
    /\ pc = "done" /\ op = "_merge" /\ key = "first"
    /\ args.left = << <<0,0>>, <<1,0>> >> /\ args.right = << <<0,1>> >>
    /\ ReturnedList
    /\ Result = << <<0,0>>, <<0,1>>, <<1,0>> >>

\* C23: merge_sort returns a container distinct from its argument, also for
\* inputs of length 0 or 1: after the return, and after a later append or element
\* assignment on the returned list, the caller's input list is what it was.
MergeSortResultDistinct ==
    (op = "merge_sort" /\ pc \in {"done", "mutated"} /\ exc = NoExc)
    => /\ ret # None
       /\ ret[1] # data[1]
       /\ heap[data[1]] = arg0

\* the list returned for a one-element input was overwritten; the input was not
MergeSortResultDistinctWitness ==
    /\ op = "merge_sort" /\ pc = "mutated"
    /\ arg0 = << <<1,0>> >>
    /\ heap[ret[1]] = <<Marker>>
    /\ heap[data[1]] = << <<1,0>> >>

\* the reference bisection on S (0-based indices lo..hi): the first probe
\* mid = (lo+hi)//2 whose key equals t, or None
RECURSIVE Bisect(_, _, _, _, _)
Bisect(k, S, t, lo, hi) ==
    IF lo > hi THEN None
    ELSE LET m == (lo + hi) \div 2
             v == KeyVal(k, S[m + 1])
         IN  IF v = t THEN Some(m)
             ELSE IF v < t THEN Bisect(k, S, t, m + 1, hi)
             ELSE Bisect(k, S, t, lo, m - 1)

\* C24: binary_search returns exactly the index found by the reference bisection
\* with low=0, high=n-1 and mid=(low+high)//2; with duplicate keys this is the
\* probed index (for [1,1,1,1,1] and target 1 the result is 2).
BinarySearchIsBisection ==
    [](  (op = "binary_search" /\ KeyTotal(key, arg0) /\ AscendingBy(key, arg0))
      => <>( /\ pc = "done" /\ op = "binary_search"
             /\ exc = NoExc
             /\ ret = Bisect(key, arg0, target[1], 0, Len(arg0) - 1)
             /\ (arg0 = Ones5 /\ key = "first" /\ target = Some(1) => ret = Some(2)) ))

\* C25: the key function is invoked anew at every comparison: the number of key
\* invocations made by merge_sort(S, k) is exactly twice the number of element
\* comparisons of its merge steps, and is zero when len(S) <= 1.
KeyInvokedPerComparison ==
    Ended("merge_sort") =>
        /\ key_calls = 2 * compares
        /\ Len(arg0) <= 1 => key_calls = 0
        /\ Len(arg0) >= 2 => compares >= 1

\* [(1,a),(0,a),(0,a)]: one comparison in the right half and two in the last
\* merge, six invocations of the key on three elements
KeyInvokedPerComparisonWitness ==
    /\ Ended("merge_sort") /\ exc = NoExc /\ key = "identity"
    /\ arg0 = << <<1,0>>, <<0,0>>, <<0,0>> >>
    /\ compares = 3 /\ key_calls = 6

\* the number of entries of the log made by step
Steps(step) == Cardinality({i \in DOMAIN log : log[i].step = step})

\* C26: merge_sort terminates on every finite list: for n >= 2 it splits at
\* floor(n/2) into a left half of length floor(n/2) and a right half of length
\* n - floor(n/2), both non-empty and strictly shorter than n, whose concatenation
\* is the input, and every _merge loop ends after at most len(left)+len(right)
\* steps.  A call on n >= 1 elements returns after n-1 splits and n-1 merges.
MergeSortTerminates ==
    /\ \A i \in DOMAIN log :
          LET e == log[i]
          IN  /\ e.step = "split" =>
                    LET n == Len(e.data)
                    IN  /\ n >= 2
                        /\ Len(e.left) = n \div 2
                        /\ Len(e.right) = n - (n \div 2)
                        /\ Len(e.left) >= 1 /\ Len(e.right) >= 1
                        /\ Len(e.left) < n /\ Len(e.right) < n
                        /\ e.left \o e.right = e.data
              /\ e.step = "merge" => e.iterations <= Len(e.left) + Len(e.right)
    /\ Ended("merge_sort") =>
          /\ ReturnedList
          /\ Steps("split") = IF arg0 = <<>> THEN 0 ELSE Len(arg0) - 1
          /\ Steps("merge") = Steps("split")

\* [(1,a),(0,a),(0,a)] is split into [(1,a)] and [(0,a),(0,a)], the right half is
\* split and merged, and the last merge loop makes two iterations
MergeSortTerminatesWitness ==
    /\ Ended("merge_sort") /\ key = "first"
    /\ arg0 = << <<1,0>>, <<0,0>>, <<0,0>> >>
    /\ Len(log) = 4
    /\ log[1].step = "split" /\ log[1].left = << <<1,0>> >>
    /\ log[1].right = << <<0,0>>, <<0,0>> >>
    /\ log[4].step = "merge" /\ log[4].iterations = 2

\* C27: clean_data may only run after load_data: called while any of trips,
\* stations or maintenance is still None, it raises RuntimeError, leaves the three
\* attributes unchanged and exports nothing.
CleanDataNeedsLoad ==
    [][ (/\ op' = "clean_data"
         /\ obj[1].trips = None \/ obj[1].stations = None \/ obj[1].maintenance = None)
        => /\ exc' = "RuntimeError"
           /\ obj' = obj
           /\ files' = files
           /\ \A f \in DOMAIN files' : files'[f] = None ]_vars

\* clean_data was called after a load_data that found trips.csv only
CleanDataNeedsLoadWitness ==
    /\ op = "clean_data" /\ exc = "RuntimeError"
    /\ obj[1].trips # None /\ obj[1].stations = None /\ obj[1].maintenance = None
    /\ files.trips_clean = None

\* no two rows of table t have the same cell in column col
UniqueIn(t, col) == \A i, j \in DOMAIN t : t[i][col] = t[j][col] => i = j

\* C28: after clean_data completes, no two trips share a trip_id, no two stations
\* a station_id, no two maintenance rows a record_id, and every trip row has
\* end_time >= start_time, duration_minutes >= 0, distance_km >= 0 and no missing
\* value in its critical columns.
CleanDataResult ==
    (op = "clean_data" /\ exc = NoExc) =>
        LET trips == obj[1].trips[1]
        IN  /\ UniqueIn(trips, "trip_id")
            /\ UniqueIn(obj[1].stations[1], "station_id")
            /\ UniqueIn(obj[1].maintenance[1], "record_id")
            /\ \A i \in DOMAIN trips :
                  LET r == trips[i]
                  IN  /\ \A c \in {"trip_id", "user_id", "bike_id", "start_station_id",
                                   "end_station_id", "start_time", "end_time",
                                   "duration_minutes", "distance_km", "status"} :
                            r[c] # None
                      /\ r.end_time[2] >= r.start_time[2]
                      /\ r.duration_minutes[2] >= 0
                      /\ r.distance_km[2] >= 0

\* of two loaded rows with the trip_id T1 the first is kept
CleanDataResultWitness ==
    /\ op = "clean_data" /\ exc = NoExc
    /\ args.dataset.trips = <<GoodTrip, [GoodTrip EXCEPT !.duration_minutes = Str("45")]>>
    /\ Len(obj[1].trips[1]) = 1
    /\ obj[1].trips[1][1].duration_minutes = <<"num", 60>>
    /\ files.trips_clean = obj[1].trips

\* C29: a rejected status assignment changes nothing: a value outside the valid
\* statuses raises ValueError and status keeps its previous value; and no status
\* assignment, accepted or rejected, changes the bike's id, bike_type or gear_count.
StatusAssignmentFrame ==
    [][ op' = "Bike.status.setter" =>
           /\ obj'[1].id = obj[1].id
           /\ obj'[1].bike_type = obj[1].bike_type
           /\ obj'[1].gear_count = obj[1].gear_count
           /\ args'.value \notin {"available", "in_use", "maintenance"} =>
                 exc' = "ValueError" /\ obj'[1].status = obj[1].status ]_vars

\* "broken" was assigned to the status of a classic bike in use with 21 gears
StatusAssignmentFrameWitness ==
    /\ op = "Bike.status.setter" /\ exc = "ValueError"
    /\ args.value = "broken"
    /\ obj[1].cls = "ClassicBike" /\ obj[1].status = "in_use" /\ obj[1].gear_count = 21

\* the caller holds an electric bike
HoldsElectricBike == pc = "object" /\ obj # None /\ obj[1].cls = "ElectricBike"

\* C30: in every reachable state of an ElectricBike 0 <= battery_level <= 100 and
\* max_range_km > 0; construction or assignment with a battery level outside
\* [0, 100] raises ValueError and leaves any existing object unchanged.
ElectricBikeValid ==
    /\ [](HoldsElectricBike =>
             /\ obj[1].battery_level[1] = "float"
             /\ 0 <= obj[1].battery_level[2] /\ obj[1].battery_level[2] <= 100
             /\ obj[1].max_range_km[1] = "float"
             /\ obj[1].max_range_km[2] > 0)
    /\ [][ (/\ op' \in {"ElectricBike.__init__", "ElectricBike.battery_level.setter"}
            /\ LET v == IF op' = "ElectricBike.__init__"
                        THEN OrDefault(args'.battery_level, DefaultBatteryLevel)
                        ELSE args'.value
               IN  v[1] # "float" \/ v[2] < 0 \/ v[2] > 100)
           => exc' = "ValueError" /\ obj' = obj ]_vars

=============================================================================
